---- MODULE Spec2Model ----
(***************************************************************************)
(* Conversation orchestrator of the writing assistant:                     *)
(*   src/components/CollaborativeEditor.tsx  handleSend, parseMessageContent*)
(*   src/services/geminiService.ts           determineNextAgent and agents  *)
(*                                                                         *)
(* A text is a sequence of characters.  A character is a one-element       *)
(* string; a character that has no ASCII glyph carries its code point as   *)
(* its name ("u8BF7" for U+8BF7) and the backtick is named "BT".           *)
(***************************************************************************)
EXTENDS Integers, Sequences, FiniteSets, TLC

VARIABLES
    messages,       \* useState<ChatMessage[]>            CollaborativeEditor.tsx:25
    inputValue,     \* useState('')                       CollaborativeEditor.tsx:26
    isProcessing,   \* useState(false)                    CollaborativeEditor.tsx:27
    draftContent,   \* prop, state of App                 PersonaLab.tsx:565
    researchNotes,  \* prop, state of App                 PersonaLab.tsx:566
    projectTopic,   \* prop, state of App                 PersonaLab.tsx:567
    turns,          \* one record per invocation of handleSend (its locals)
    call            \* one application of a pure function (argument, result)

vars == <<messages, inputValue, isProcessing, draftContent, researchNotes,
          projectTopic, turns, call>>

----------------------------------------------------------------------------
(* Bounds *)

\* invocations of handleSend
MaxTurns == 2
\* invocations of handleSend suspended at an await
MaxInFlight == 2
\* increments of one stream
MaxChunks == 2
\* gateway calls that fail
MaxFailures == 1
\* clicks on a suggestion chip
MaxChipClicks == 1

----------------------------------------------------------------------------
(* String primitives of the JavaScript runtime, on sequences of characters *)

Whitespace == {" ", "\n", "\t", "CR"}

RECURSIVE TrimStart(_)
TrimStart(s) ==
    IF s # <<>> /\ Head(s) \in Whitespace THEN TrimStart(Tail(s)) ELSE s

RECURSIVE TrimEnd(_)
TrimEnd(s) ==
    IF s # <<>> /\ s[Len(s)] \in Whitespace
    THEN TrimEnd(SubSeq(s, 1, Len(s) - 1)) ELSE s

Trim(s) == TrimEnd(TrimStart(s))

UpperLetters == <<"A","B","C","D","E","F","G","H","I","J","K","L","M",
                  "N","O","P","Q","R","S","T","U","V","W","X","Y","Z">>
LowerLetters == <<"a","b","c","d","e","f","g","h","i","j","k","l","m",
                  "n","o","p","q","r","s","t","u","v","w","x","y","z">>

LowerChar(c) ==
    IF \E i \in 1..26 : UpperLetters[i] = c
    THEN LowerLetters[CHOOSE i \in 1..26 : UpperLetters[i] = c]
    ELSE c

ToLowerCase(s) == [i \in 1..Len(s) |-> LowerChar(s[i])]

StartsWith(s, p) == Len(p) <= Len(s) /\ SubSeq(s, 1, Len(p)) = p

\* index of the first occurrence of p in s at or after position from, 0 if none
RECURSIVE IndexOf(_, _, _)
IndexOf(s, p, from) ==
    IF from + Len(p) - 1 > Len(s) THEN 0
    ELSE IF s[from] = p[1] /\ SubSeq(s, from, from + Len(p) - 1) = p THEN from
    ELSE IndexOf(s, p, from + 1)

Contains(s, p) == IndexOf(s, p, 1) # 0

\* String.prototype.replace with a global pattern (p non-empty)
RECURSIVE ReplaceAll(_, _, _)
ReplaceAll(s, p, r) ==
    LET i == IndexOf(s, p, 1) IN
    IF i = 0 THEN s
    ELSE SubSeq(s, 1, i - 1) \o r
         \o ReplaceAll(SubSeq(s, i + Len(p), Len(s)), p, r)

\* String.prototype.split with a non-empty separator
RECURSIVE Split(_, _)
Split(s, d) ==
    LET i == IndexOf(s, d, 1) IN
    IF i = 0 THEN <<s>>
    ELSE <<SubSeq(s, 1, i - 1)>> \o Split(SubSeq(s, i + Len(d), Len(s)), d)

RECURSIVE Concat(_)
Concat(ss) == IF ss = <<>> THEN <<>> ELSE Head(ss) \o Concat(Tail(ss))

----------------------------------------------------------------------------
(* String literals of the source *)

\* 你好! 我是首席写手。告诉我你的想法，我会帮你找到最佳切入角度和结构。如果需要调研或审稿，我的团队随时待命。\n\n:::SUGGESTIONS::: ["提供一个写作灵感", "我想写一篇行业分析"]  CollaborativeEditor.tsx:51
Greeting ==
    <<"u4F60", "u597D", "!", " ", "u6211", "u662F", "u9996", "u5E2D",
      "u5199", "u624B", "u3002", "u544A", "u8BC9", "u6211", "u4F60",
      "u7684", "u60F3", "u6CD5", "uFF0C", "u6211", "u4F1A", "u5E2E",
      "u4F60", "u627E", "u5230", "u6700", "u4F73", "u5207", "u5165",
      "u89D2", "u5EA6", "u548C", "u7ED3", "u6784", "u3002", "u5982",
      "u679C", "u9700", "u8981", "u8C03", "u7814", "u6216", "u5BA1",
      "u7A3F", "uFF0C", "u6211", "u7684", "u56E2", "u961F", "u968F",
      "u65F6", "u5F85", "u547D", "u3002", "\n", "\n", ":", ":", ":", "S",
      "U", "G", "G", "E", "S", "T", "I", "O", "N", "S", ":", ":", ":", " ",
      "[", "\"", "u63D0", "u4F9B", "u4E00", "u4E2A", "u5199", "u4F5C",
      "u7075", "u611F", "\"", ",", " ", "\"", "u6211", "u60F3", "u5199",
      "u4E00", "u7BC7", "u884C", "u4E1A", "u5206", "u6790", "\"", "]">>

\* 请你帮我一键修改  CollaborativeEditor.tsx:91
SpecialCommand ==
    <<"u8BF7", "u4F60", "u5E2E", "u6211", "u4E00", "u952E", "u4FEE",
      "u6539">>

\* 请优化全文  CollaborativeEditor.tsx:94
DefaultCritique ==
    <<"u8BF7", "u4F18", "u5316", "u5168", "u6587">>

\* 没问题，我正在根据之前的评审意见进行全篇修改，请稍候...  CollaborativeEditor.tsx:101
FixingText ==
    <<"u6CA1", "u95EE", "u9898", "uFF0C", "u6211", "u6B63", "u5728",
      "u6839", "u636E", "u4E4B", "u524D", "u7684", "u8BC4", "u5BA1",
      "u610F", "u89C1", "u8FDB", "u884C", "u5168", "u7BC7", "u4FEE",
      "u6539", "uFF0C", "u8BF7", "u7A0D", "u5019", ".", ".", ".">>

\* ✅ 已根据毒舌主编的意见完成修改，并自动更新了右侧草稿。\n\n你可以检查一下，或者继续进行下一步。\n\n:::SUGGESTIONS::: ["继续完善草稿", "再次评审", "完成项目"]  CollaborativeEditor.tsx:112
FixedText ==
    <<"u2705", " ", "u5DF2", "u6839", "u636E", "u6BD2", "u820C", "u4E3B",
      "u7F16", "u7684", "u610F", "u89C1", "u5B8C", "u6210", "u4FEE",
      "u6539", "uFF0C", "u5E76", "u81EA", "u52A8", "u66F4", "u65B0",
      "u4E86", "u53F3", "u4FA7", "u8349", "u7A3F", "u3002", "\n", "\n",
      "u4F60", "u53EF", "u4EE5", "u68C0", "u67E5", "u4E00", "u4E0B",
      "uFF0C", "u6216", "u8005", "u7EE7", "u7EED", "u8FDB", "u884C",
      "u4E0B", "u4E00", "u6B65", "u3002", "\n", "\n", ":", ":", ":", "S",
      "U", "G", "G", "E", "S", "T", "I", "O", "N", "S", ":", ":", ":", " ",
      "[", "\"", "u7EE7", "u7EED", "u5B8C", "u5584", "u8349", "u7A3F", "\"",
      ",", " ", "\"", "u518D", "u6B21", "u8BC4", "u5BA1", "\"", ",", " ",
      "\"", "u5B8C", "u6210", "u9879", "u76EE", "\"", "]">>

\* 没有找到相关调研结果。  CollaborativeEditor.tsx:145
ResearchFallback ==
    <<"u6CA1", "u6709", "u627E", "u5230", "u76F8", "u5173", "u8C03",
      "u7814", "u7ED3", "u679C", "u3002">>

\* \n\n--- 调研主题:   CollaborativeEditor.tsx:147
NotesHeaderOpen ==
    <<"\n", "\n", "-", "-", "-", " ", "u8C03", "u7814", "u4E3B", "u9898",
      ":", " ">>

\*  ---\n  CollaborativeEditor.tsx:147
NotesHeaderClose ==
    <<" ", "-", "-", "-", "\n">>

\* 请先生成草稿，或者直接把要评审的内容发给我。\n\n:::SUGGESTIONS::: [  CollaborativeEditor.tsx:164
NothingToReview ==
    <<"u8BF7", "u5148", "u751F", "u6210", "u8349", "u7A3F", "uFF0C",
      "u6216", "u8005", "u76F4", "u63A5", "u628A", "u8981", "u8BC4",
      "u5BA1", "u7684", "u5185", "u5BB9", "u53D1", "u7ED9", "u6211",
      "u3002", "\n", "\n", ":", ":", ":", "S", "U", "G", "G", "E", "S", "T",
      "I", "O", "N", "S", ":", ":", ":", " ", "[">>

\* 评审当前草稿  CollaborativeEditor.tsx:164
ChipReviewDraft ==
    <<"u8BC4", "u5BA1", "u5F53", "u524D", "u8349", "u7A3F">>

\* 我来写一段  CollaborativeEditor.tsx:164
ChipWriteSome ==
    <<"u6211", "u6765", "u5199", "u4E00", "u6BB5">>

\* 发生错误，请重试。  CollaborativeEditor.tsx:192
ErrorText ==
    <<"u53D1", "u751F", "u9519", "u8BEF", "uFF0C", "u8BF7", "u91CD",
      "u8BD5", "u3002">>

\* :::SUGGESTIONS:::  CollaborativeEditor.tsx:204
SuggestionsDelimiter ==
    <<":", ":", ":", "S", "U", "G", "G", "E", "S", "T", "I", "O", "N", "S",
      ":", ":", ":">>

\* 新写作项目  geminiService.ts:169
DefaultTopic ==
    <<"u65B0", "u5199", "u4F5C", "u9879", "u76EE">>

\* ```markdown  geminiService.ts:409
FenceMarkdown ==
    <<"BT", "BT", "BT", "m", "a", "r", "k", "d", "o", "w", "n">>

\* ```  geminiService.ts:409
Fence ==
    <<"BT", "BT", "BT">>


----------------------------------------------------------------------------
(* JSON.stringify and JSON.parse of the JavaScript runtime.  A JSON value  *)
(* is a record [type, value]; the value of a string is its characters, of  *)
(* an array its items, of an object its members [key, val], of a number    *)
(* its lexeme.  The characters of the model include no \uXXXX escape and   *)
(* no control character other than "\n" and "\t".                          *)

JString(chars)   == [type |-> "string", value |-> chars]
JArray(items)    == [type |-> "array",  value |-> items]
JObject(members) == [type |-> "object", value |-> members]
JNumber(lexeme)  == [type |-> "number", value |-> lexeme]
JLiteral(name)   == [type |-> name,     value |-> <<>>]

ParseFailure == [ok |-> FALSE, value |-> JLiteral("undefined"), next |-> 0]
Parsed(v, n) == [ok |-> TRUE, value |-> v, next |-> n]

JsonWhitespace == {" ", "\n", "\t", "CR"}
Digit == {"0", "1", "2", "3", "4", "5", "6", "7", "8", "9"}

\* the character an escape sequence \e stands for
Unescape(e) ==
    CASE e = "n" -> "\n" [] e = "t" -> "\t" [] e = "r" -> "CR"
      [] e = "b" -> "BS" [] e = "f" -> "FF" [] OTHER -> e

\* the escape sequence JSON.stringify writes for a character
RECURSIVE Quote(_)
Quote(chars) ==
    IF chars = <<>> THEN <<>>
    ELSE LET c == Head(chars) IN
         (CASE c = "\"" -> <<"\\", "\"">>
            [] c = "\\" -> <<"\\", "\\">>
            [] c = "\n" -> <<"\\", "n">>
            [] c = "\t" -> <<"\\", "t">>
            [] OTHER    -> <<c>>)
         \o Quote(Tail(chars))

RECURSIVE StringifyItems(_)
StringifyItems(list) ==
    IF list = <<>> THEN <<>>
    ELSE <<"\"">> \o Quote(Head(list)) \o <<"\"">>
         \o (IF Len(list) > 1 THEN <<",">> ELSE <<>>)
         \o StringifyItems(Tail(list))

\* JSON.stringify of an array of strings
JSONStringify(list) == <<"[">> \o StringifyItems(list) \o <<"]">>

RECURSIVE SkipWs(_, _)
SkipWs(s, i) ==
    IF i <= Len(s) /\ s[i] \in JsonWhitespace THEN SkipWs(s, i + 1) ELSE i

RECURSIVE SkipDigits(_, _)
SkipDigits(s, i) ==
    IF i <= Len(s) /\ s[i] \in Digit THEN SkipDigits(s, i + 1) ELSE i

At(s, i) == IF i >= 1 /\ i <= Len(s) THEN s[i] ELSE "EOF"

\* s[i] is the character after the opening quote
RECURSIVE ParseString(_, _, _)
ParseString(s, i, acc) ==
    LET c == At(s, i) IN
    IF c = "EOF" \/ c \in {"\n", "\t"} THEN ParseFailure
    ELSE IF c = "\"" THEN Parsed(JString(acc), i + 1)
    ELSE IF c = "\\"
         THEN IF At(s, i + 1) \in {"\"", "\\", "/", "b", "f", "n", "r", "t"}
              THEN ParseString(s, i + 2, Append(acc, Unescape(s[i + 1])))
              ELSE ParseFailure
    ELSE ParseString(s, i + 1, Append(acc, c))

\* -? (0 | [1-9][0-9]*) (. [0-9]+)? ([eE] [+-]? [0-9]+)?
ParseNumber(s, i) ==
    LET i1 == IF At(s, i) = "-" THEN i + 1 ELSE i
        i2 == IF At(s, i1) = "0" THEN i1 + 1 ELSE SkipDigits(s, i1)
        f  == IF At(s, i2) = "." THEN SkipDigits(s, i2 + 1) ELSE i2
        e0 == IF At(s, f) \in {"e", "E"}
              THEN (IF At(s, f + 1) \in {"+", "-"} THEN f + 2 ELSE f + 1)
              ELSE f
        e  == IF e0 = f THEN f ELSE SkipDigits(s, e0)
    IN IF i2 = i1 \/ (At(s, i2) = "." /\ f = i2 + 1) \/ (e0 # f /\ e = e0)
       THEN ParseFailure
       ELSE Parsed(JNumber(SubSeq(s, i, e - 1)), e)

StartsAt(s, i, word) == SubSeq(s, i, i + Len(word) - 1) = word

RECURSIVE ParseValue(_, _)
RECURSIVE ParseItems(_, _, _)
RECURSIVE ParseMembers(_, _, _)

\* s[i] is the first character of a value
ParseValue(s, i) ==
    LET c == At(s, i) IN
    CASE c = "\"" -> ParseString(s, i + 1, <<>>)
      [] c = "[" ->
            LET j == SkipWs(s, i + 1) IN
            IF At(s, j) = "]" THEN Parsed(JArray(<<>>), j + 1)
            ELSE ParseItems(s, j, <<>>)
      [] c = "{" ->
            LET j == SkipWs(s, i + 1) IN
            IF At(s, j) = "}" THEN Parsed(JObject(<<>>), j + 1)
            ELSE ParseMembers(s, j, <<>>)
      [] c = "-" \/ c \in Digit -> ParseNumber(s, i)
      [] c = "n" -> IF StartsAt(s, i, <<"n", "u", "l", "l">>)
                    THEN Parsed(JLiteral("null"), i + 4) ELSE ParseFailure
      [] c = "t" -> IF StartsAt(s, i, <<"t", "r", "u", "e">>)
                    THEN Parsed(JLiteral("true"), i + 4) ELSE ParseFailure
      [] c = "f" -> IF StartsAt(s, i, <<"f", "a", "l", "s", "e">>)
                    THEN Parsed(JLiteral("false"), i + 5) ELSE ParseFailure
      [] OTHER -> ParseFailure

\* s[i] is the first character of an item of an array
ParseItems(s, i, acc) ==
    LET v == ParseValue(s, i) IN
    IF ~v.ok THEN ParseFailure
    ELSE LET j == SkipWs(s, v.next) IN
         IF At(s, j) = "]" THEN Parsed(JArray(Append(acc, v.value)), j + 1)
         ELSE IF At(s, j) = ","
              THEN ParseItems(s, SkipWs(s, j + 1), Append(acc, v.value))
              ELSE ParseFailure

\* s[i] is the first character of a member of an object
ParseMembers(s, i, acc) ==
    IF At(s, i) # "\"" THEN ParseFailure
    ELSE LET k == ParseString(s, i + 1, <<>>) IN
         IF ~k.ok THEN ParseFailure
         ELSE LET c == SkipWs(s, k.next) IN
              IF At(s, c) # ":" THEN ParseFailure
              ELSE LET v == ParseValue(s, SkipWs(s, c + 1)) IN
                   IF ~v.ok THEN ParseFailure
                   ELSE LET j == SkipWs(s, v.next)
                            m == Append(acc, [key |-> k.value.value, val |-> v.value])
                        IN IF At(s, j) = "}" THEN Parsed(JObject(m), j + 1)
                           ELSE IF At(s, j) = ","
                                THEN ParseMembers(s, SkipWs(s, j + 1), m)
                                ELSE ParseFailure

\* JSON.parse: ok is FALSE when it throws a SyntaxError
JSONParse(s) ==
    LET v == ParseValue(s, SkipWs(s, 1)) IN
    IF v.ok /\ SkipWs(s, v.next) > Len(s) THEN v ELSE ParseFailure

----------------------------------------------------------------------------
(* Agent identities, src/types.ts:1-7 *)

POLISHER   == <<"p","o","l","i","s","h","e","r">>
CHIEF      == <<"c","h","i","e","f">>
RESEARCHER == <<"r","e","s","e","a","r","c","h","e","r">>
EXECUTOR   == <<"e","x","e","c","u","t","o","r">>
EDITOR     == <<"e","d","i","t","o","r">>

RoleId == {POLISHER, CHIEF, RESEARCHER, EXECUTOR, EDITOR}

----------------------------------------------------------------------------
(* Model Gateway, as the code consumes it: a call either throws or yields  *)
(* a response whose text is a string or is missing (response.text is       *)
(* string | undefined).                                                    *)

GatewayError == [ok |-> FALSE, hasText |-> FALSE, text |-> <<>>]
NoText       == [ok |-> TRUE,  hasText |-> FALSE, text |-> <<>>]
TextOf(s)    == [ok |-> TRUE,  hasText |-> TRUE,  text |-> s]

----------------------------------------------------------------------------
(* Agent Router, src/services/geminiService.ts:115-156 *)

\* a variant that validates against the whole RoleId enumeration
determineNextAgentAnyRole(response) ==
    IF ~response.ok THEN [threw |-> FALSE, value |-> CHIEF]
    ELSE LET norm == IF response.hasText
                     THEN ReplaceAll(ToLowerCase(Trim(response.text)), <<"\"">>, <<>>)
                     ELSE <<>>
             text == IF norm = <<>> THEN CHIEF ELSE norm
         IN [threw |-> FALSE,
             value |-> IF text \in RoleId THEN text ELSE CHIEF]

\* a variant that lets the gateway failure escape
determineNextAgentRethrows(response) ==
    IF ~response.ok THEN [threw |-> TRUE, value |-> CHIEF]
    ELSE LET norm == IF response.hasText
                     THEN ReplaceAll(ToLowerCase(Trim(response.text)), <<"\"">>, <<>>)
                     ELSE <<>>
             text == IF norm = <<>> THEN CHIEF ELSE norm
         IN [threw |-> FALSE,
             value |-> IF text \in {CHIEF, RESEARCHER, EXECUTOR, EDITOR}
                       THEN text ELSE CHIEF]

\* the result of the promise: threw is TRUE when it rejects
determineNextAgent(response) ==
    IF ~response.ok
    THEN \* catch (e): return RoleId.CHIEF                       :152-155
         [threw |-> FALSE, value |-> CHIEF]
    ELSE \* response.text?.trim().toLowerCase().replace(/"/g,'') || CHIEF :145
         LET norm == IF response.hasText
                     THEN ReplaceAll(ToLowerCase(Trim(response.text)), <<"\"">>, <<>>)
                     ELSE <<>>
             text == IF norm = <<>> THEN CHIEF ELSE norm
         IN [threw |-> FALSE,
             value |-> IF text \in {CHIEF, RESEARCHER, EXECUTOR, EDITOR}
                       THEN text ELSE CHIEF]

----------------------------------------------------------------------------
(* Agent functions of src/services/geminiService.ts, as handleSend sees    *)
(* them: what the promise settles to for a given gateway response.         *)

\* extractTopicFromInput, geminiService.ts:158-170
extractTopicFromInput(response) ==
    IF ~response.ok THEN [threw |-> TRUE, value |-> <<>>]
    ELSE LET t == IF response.hasText THEN Trim(response.text) ELSE <<>>
         IN [threw |-> FALSE, value |-> IF t = <<>> THEN DefaultTopic ELSE t]

\* performResearch, geminiService.ts:268-298: returns response.text as is
performResearch(response) ==
    IF ~response.ok THEN [threw |-> TRUE, value |-> <<>>]
    ELSE [threw |-> FALSE,
          value |-> IF response.hasText THEN response.text ELSE <<>>]

\* applyEditorFixes, geminiService.ts:376-411
applyEditorFixes(response) ==
    IF ~response.ok THEN [threw |-> TRUE, value |-> <<>>]
    ELSE LET text == IF response.hasText THEN response.text ELSE <<>>
         IN [threw |-> FALSE,
             value |-> Trim(ReplaceAll(ReplaceAll(text, FenceMarkdown, <<>>),
                                       Fence, <<>>))]

----------------------------------------------------------------------------
(* Inputs *)

Hi == <<"h", "i">>

\* what the user may type into the text area
InputTexts == {<<" ">>, Hi, SpecialCommand}

\* gateway outcomes of the router call
RouterResponses ==
    {TextOf(CHIEF), TextOf(RESEARCHER), TextOf(EXECUTOR), TextOf(EDITOR),
     TextOf(POLISHER), TextOf(<<" ", "\"", "E", "d", "i", "t", "o", "r", "\"", "\n">>),
     NoText, GatewayError}

\* gateway outcomes of the single-shot calls
FixResponses ==
    {TextOf(<<"D">>), TextOf(FenceMarkdown \o <<"\n", "D", "\n">> \o Fence),
     TextOf(<<>>), NoText, GatewayError}
ResearchResponses == {TextOf(<<"R">>), TextOf(<<>>), NoText, GatewayError}
TopicResponses    == {TextOf(<<" ", "T">>), GatewayError}

\* the k-th text increment of a stream: increments differ from one another,
\* so that an assembly in another order yields another text; the second one
\* carries the marker and chips an agent is told to append, here the special
\* command, a whitespace-only chip and an empty chip
\* :::SUGGESTIONS::: ["请你帮我一键修改", " ", ""]  shape of geminiService.ts:365
CriticChips ==
    <<":", ":", ":", "S", "U", "G", "G", "E", "S", "T", "I", "O", "N", "S",
      ":", ":", ":", " ", "[", "\"", "u8BF7", "u4F60", "u5E2E", "u6211",
      "u4E00", "u952E", "u4FEE", "u6539", "\"", ",", " ", "\"", " ", "\"",
      ",", " ", "\"", "\"", "]">>

ChunkAt(k) == IF k = 2 THEN {CriticChips} ELSE {<<LowerLetters[k]>>}

----------------------------------------------------------------------------
(* Messages, src/types.ts:27-34.  A user message has no agentId (<<>>) and  *)
(* no isThinking (FALSE).  crypto.randomUUID() yields a fresh id: the id of *)
(* turn t's user message is <<"u", t>>, of its agent message <<"a", t>>.    *)

Turns == 1..MaxTurns

UserMsgId(t) == <<"u", t>>
AiMsgId(t)   == <<"a", t>>

InitMessage ==
    [id |-> <<"init", 0>>, role |-> "model", agentId |-> CHIEF,
     text |-> Greeting, isThinking |-> FALSE]

UserMessage(t, text) ==
    [id |-> UserMsgId(t), role |-> "user", agentId |-> <<>>,
     text |-> text, isThinking |-> FALSE]

AiMessage(t, agentId, text) ==
    [id |-> AiMsgId(t), role |-> "model", agentId |-> agentId,
     text |-> text, isThinking |-> TRUE]

\* a variant that takes the most recent agent message whoever wrote it
LastCritiqueAnyAgent(msgs) ==
    LET agents == {i \in DOMAIN msgs : msgs[i].role = "model"} IN
    IF agents = {} THEN DefaultCritique
    ELSE msgs[CHOOSE i \in agents : \A j \in agents : j <= i].text

\* [...messages].reverse().find(editor model message)?.text ?? fallback  :93-94
RECURSIVE LastCritique(_)
LastCritique(msgs) ==
    IF msgs = <<>> THEN DefaultCritique
    ELSE LET m == msgs[Len(msgs)] IN
         IF m.agentId = EDITOR /\ m.role = "model" THEN m.text
         ELSE LastCritique(SubSeq(msgs, 1, Len(msgs) - 1))

\* parseMessageContent, CollaborativeEditor.tsx:203-216
parseMessageContent(content) ==
    LET parts  == Split(content, SuggestionsDelimiter)
        parsed == IF Len(parts) > 1 THEN JSONParse(Trim(parts[2]))
                  ELSE ParseFailure
    IN [cleanText   |-> Trim(parts[1]),
        suggestions |-> IF Len(parts) > 1 /\ parsed.ok THEN parsed.value
                        ELSE JArray(<<>>)]

\* a variant that sets the text and leaves the message pending
updateAiMessageKeepsPending(msgs, id, text) ==
    [i \in DOMAIN msgs |->
        IF msgs[i].id = id THEN [msgs[i] EXCEPT !.text = text] ELSE msgs[i]]

\* updateAiMessage, CollaborativeEditor.tsx:137-139
updateAiMessage(msgs, id, text) ==
    [i \in DOMAIN msgs |->
        IF msgs[i].id = id
        THEN [msgs[i] EXCEPT !.text = text, !.isThinking = FALSE]
        ELSE msgs[i]]

\* a variant that removes the pending messages from the log
CatchErrorDropsPending(msgs) ==
    SelectSeq(msgs, LAMBDA m : ~(m.role = "model" /\ m.isThinking))

\* the catch clause, CollaborativeEditor.tsx:190-192
CatchError(msgs) ==
    [i \in DOMAIN msgs |->
        IF msgs[i].role = "model" /\ msgs[i].isThinking
        THEN [msgs[i] EXCEPT !.text = ErrorText, !.isThinking = FALSE]
        ELSE msgs[i]]

\* fullText += chunk.text, CollaborativeEditor.tsx:155,169,185
Accumulate(fullText, chunk) == fullText \o chunk

----------------------------------------------------------------------------
(* One invocation of handleSend.  pc is the await it is suspended at:      *)
(*   idle          not invoked yet                                         *)
(*   returned      left at line 70                                         *)
(*   awaitFixes    await applyEditorFixes            :106                  *)
(*   awaitRouter   await determineNextAgent          :121                  *)
(*   awaitResearch await performResearch             :144                  *)
(*   stream        await of the stream and of each of its increments       *)
(*                                                   :152-157,166-171,176-187 *)
(*   done          past finally                      :193-195              *)
(* textToSend, draft, notes are the values the closure captured; calls,    *)
(* increments, failed and routerFailed record what happened to the turn,   *)
(* content is the argument of critiqueDraft and result what a single-shot  *)
(* agent call returned.                                                    *)

NoOverride == [given |-> FALSE, text |-> <<>>]
Override(text) == [given |-> TRUE, text |-> text]

IdleTurn ==
    [pc |-> "idle", textOverride |-> NoOverride, textToSend |-> <<>>, draft |-> <<>>, notes |-> <<>>,
     critiqueText |-> <<>>, targetAgentId |-> <<>>, fullText |-> <<>>,
     increments |-> <<>>, calls |-> <<>>, failed |-> FALSE,
     routerFailed |-> FALSE, topic |-> "none", content |-> <<>>,
     result |-> <<>>]

NoCall == [fn |-> "none"]

Init ==
    /\ messages = <<InitMessage>>
    /\ inputValue = <<>>
    /\ isProcessing = FALSE
    /\ draftContent = <<>>
    /\ researchNotes = <<>>
    /\ projectTopic = <<>>
    /\ turns = [t \in Turns |-> IdleTurn]
    /\ call = NoCall

\* the next invocation takes the first unused record
IsNext(t) ==
    /\ turns[t].pc = "idle"
    /\ \A u \in Turns : u < t => turns[u].pc # "idle"

InFlight(t) == turns[t].pc \notin {"idle", "returned", "done"}

\* the gateway calls that have failed so far
Failures ==
    Cardinality({t \in Turns : turns[t].failed})
        + Cardinality({t \in Turns : turns[t].routerFailed})
        + Cardinality({t \in Turns : turns[t].topic = "failed"})

MayFail(response) == response.ok \/ Failures < MaxFailures

Called(t, f) == \E i \in DOMAIN turns[t].calls : turns[t].calls[i] = f

\* the textarea's onChange, CollaborativeEditor.tsx:389
SetInputValue(v) ==
    /\ v # inputValue
    /\ \E t \in Turns : turns[t].pc = "idle"
    /\ inputValue' = v
    /\ UNCHANGED <<messages, isProcessing, draftContent, researchNotes,
                   projectTopic, turns, call>>

\* a variant that tests the text without trimming it
IsBlankUntrimmed(textToSend) == textToSend = <<>>

\* !textToSend.trim(), CollaborativeEditor.tsx:70
IsBlank(textToSend) == Trim(textToSend) = <<>>

\* a variant without the special-command branch
IsSpecialNever(textToSend) == FALSE

\* textToSend === "请你帮我一键修改", CollaborativeEditor.tsx:91
IsSpecial(textToSend) == textToSend = SpecialCommand

\* a variant that leaves the flag set when the turn fails
FinallyKeepsFlagOnFailure(failed) == failed

\* the value setIsProcessing receives in finally, CollaborativeEditor.tsx:193-195
Finally(failed) == FALSE

\* textOverride || inputValue, CollaborativeEditor.tsx:69
EffectiveText(textOverride, input) ==
    IF textOverride.given /\ textOverride.text # <<>> THEN textOverride.text
    ELSE input

\* handleSend from its entry to its first await, CollaborativeEditor.tsx:68-124
handleSend(t, textOverride) ==
    LET textToSend == EffectiveText(textOverride, inputValue)
        fireTopic  == projectTopic = <<>> /\ Len(messages) <= 1
        base == [IdleTurn EXCEPT !.textOverride = textOverride,
                                 !.textToSend = textToSend,
                                 !.draft = draftContent,
                                 !.notes = researchNotes,
                                 !.topic = IF fireTopic THEN "pending" ELSE "none",
                                 !.calls = IF fireTopic
                                           THEN <<"extractTopicFromInput">>
                                           ELSE <<>>]
        withUser == Append(messages, UserMessage(t, textToSend))
    IN
    /\ IsNext(t)
    /\ Cardinality({u \in Turns : InFlight(u)}) < MaxInFlight
    /\ IF IsBlank(textToSend)
       THEN /\ turns' = [turns EXCEPT ![t] =
                           [IdleTurn EXCEPT !.pc = "returned",
                                            !.textOverride = textOverride,
                                            !.textToSend = textToSend]]
            /\ UNCHANGED <<messages, inputValue, isProcessing>>
       ELSE /\ inputValue' = <<>>
            /\ isProcessing' = TRUE
            /\ IF IsSpecial(textToSend)
               THEN /\ messages' = Append(withUser, AiMessage(t, EDITOR, FixingText))
                    /\ turns' = [turns EXCEPT ![t] =
                          [base EXCEPT !.pc = "awaitFixes",
                                       !.targetAgentId = EDITOR,
                                       !.critiqueText = LastCritique(messages),
                                       !.calls = @ \o <<"applyEditorFixes">>]]
               ELSE /\ messages' = withUser
                    /\ turns' = [turns EXCEPT ![t] =
                          [base EXCEPT !.pc = "awaitRouter",
                                       !.calls = @ \o <<"determineNextAgent">>]]
    /\ UNCHANGED <<draftContent, researchNotes, projectTopic, call>>

\* the send button, CollaborativeEditor.tsx:400-408
ClickSend(t) ==
    /\ Trim(inputValue) # <<>>
    /\ ~isProcessing
    /\ handleSend(t, NoOverride)

\* Enter in the text area, CollaborativeEditor.tsx:390-395
PressEnter(t) ==
    /\ IsNext(t)
    /\ handleSend(t, NoOverride)

ChipClicks == Cardinality({t \in Turns : turns[t].textOverride.given})

\* a suggestion chip of a message that is not the user's,
\* CollaborativeEditor.tsx:361-376
ClickSuggestion(t) ==
    /\ IsNext(t)
    /\ ChipClicks < MaxChipClicks
    /\ ~isProcessing
    /\ \E i \in DOMAIN messages :
          /\ messages[i].role # "user"
          /\ LET suggestions == parseMessageContent(messages[i].text).suggestions
             IN /\ suggestions.type = "array"
                /\ \E j \in DOMAIN suggestions.value :
                      /\ suggestions.value[j].type = "string"
                      /\ handleSend(t, Override(suggestions.value[j].value))

\* the topic extraction settles, CollaborativeEditor.tsx:84-86
TopicSettles(t, response) ==
    /\ turns[t].topic = "pending"
    /\ MayFail(response)
    /\ LET r == extractTopicFromInput(response) IN
       /\ projectTopic' = IF ~r.threw /\ r.value # <<>> THEN r.value
                          ELSE projectTopic
       /\ turns' = [turns EXCEPT ![t].topic = IF r.threw THEN "failed"
                                              ELSE "settled"]
    /\ UNCHANGED <<messages, inputValue, isProcessing, draftContent,
                   researchNotes, call>>

\* catch and finally, CollaborativeEditor.tsx:190-195
Fails(t, tr) ==
    /\ messages' = CatchError(messages)
    /\ isProcessing' = Finally(TRUE)
    /\ turns' = [turns EXCEPT ![t] = [tr EXCEPT !.pc = "done", !.failed = TRUE]]
    /\ UNCHANGED <<inputValue, draftContent, researchNotes, projectTopic, call>>

\* applyEditorFixes settles, CollaborativeEditor.tsx:106-117 or :190-195
FixesSettle(t, response) ==
    /\ turns[t].pc = "awaitFixes"
    /\ MayFail(response)
    /\ LET r == applyEditorFixes(response) IN
       IF r.threw THEN Fails(t, turns[t])
       ELSE /\ draftContent' = IF r.value # <<>> THEN r.value ELSE turns[t].draft
            /\ messages' = updateAiMessage(messages, AiMsgId(t), FixedText)
            /\ isProcessing' = FALSE
            /\ turns' = [turns EXCEPT ![t].pc = "done", ![t].result = r.value]
            /\ UNCHANGED <<inputValue, researchNotes, projectTopic, call>>

\* a variant whose length test admits a text of 50 characters
ContentToReviewFrom50(text, draft) == IF Len(text) >= 50 THEN text ELSE draft

\* userMsg.text.length > 50 ? userMsg.text : draftContent, CollaborativeEditor.tsx:160
ContentToReview(text, draft) == IF Len(text) > 50 THEN text ELSE draft

\* a variant that hands every turn to the chief writer
AgentCallChiefOnly(target) == "chatWithChief"

\* the agent function of each branch, CollaborativeEditor.tsx:142-188
AgentCall(target) ==
    IF target = RESEARCHER THEN "performResearch"
    ELSE IF target = EXECUTOR THEN "executeWriting"
    ELSE IF target = EDITOR THEN "critiqueDraft"
    ELSE "chatWithChief"

\* determineNextAgent settles: placeholder and dispatch, CollaborativeEditor.tsx:121-181
RouterSettles(t, response) ==
    /\ turns[t].pc = "awaitRouter"
    /\ MayFail(response)
    /\ LET r  == determineNextAgent(response)
           tr == [turns[t] EXCEPT !.routerFailed = ~response.ok]
       IN
       IF r.threw THEN Fails(t, tr)
       ELSE
       LET target == r.value
           text   == tr.textToSend
           msgs   == Append(messages, AiMessage(t, target, <<>>))
           contentToReview == ContentToReview(text, tr.draft)
           to(pc, f) == [tr EXCEPT !.pc = pc, !.targetAgentId = target,
                                   !.calls = @ \o f,
                                   !.content = IF target = EDITOR
                                               THEN contentToReview ELSE <<>>]
       IN
       IF target = EDITOR /\ contentToReview = <<>>
       THEN /\ messages' = updateAiMessage(msgs, AiMsgId(t),
                              NothingToReview
                              \o (IF tr.draft # <<>> THEN ChipReviewDraft
                                                    ELSE ChipWriteSome)
                              \o <<"]">>)
            /\ isProcessing' = Finally(FALSE)
            /\ turns' = [turns EXCEPT ![t] = to("done", <<>>)]
            /\ UNCHANGED <<inputValue, draftContent, researchNotes,
                           projectTopic, call>>
       ELSE /\ messages' = msgs
            /\ turns' = [turns EXCEPT ![t] =
                  IF target = RESEARCHER
                  THEN to("awaitResearch", <<AgentCall(target)>>)
                  ELSE to("stream", <<AgentCall(target)>>)]
            /\ UNCHANGED <<inputValue, isProcessing, draftContent,
                           researchNotes, projectTopic, call>>

\* a variant that appends a block for an empty result as well
AppendsToNotesAlways(result) == TRUE

\* if (result), CollaborativeEditor.tsx:146
AppendsToNotes(result) == result # <<>>

\* performResearch settles, CollaborativeEditor.tsx:144-148 or :190-195
ResearchSettles(t, response) ==
    /\ turns[t].pc = "awaitResearch"
    /\ MayFail(response)
    /\ LET r == performResearch(response) IN
       IF r.threw THEN Fails(t, turns[t])
       ELSE /\ messages' = updateAiMessage(messages, AiMsgId(t),
                              IF r.value # <<>> THEN r.value ELSE ResearchFallback)
            /\ researchNotes' =
                  IF AppendsToNotes(r.value)
                  THEN turns[t].notes \o NotesHeaderOpen \o turns[t].textToSend
                       \o NotesHeaderClose \o r.value
                  ELSE researchNotes
            /\ isProcessing' = Finally(FALSE)
            /\ turns' = [turns EXCEPT ![t].pc = "done", ![t].result = r.value]
            /\ UNCHANGED <<inputValue, draftContent, projectTopic, call>>

\* one increment of the stream arrives, CollaborativeEditor.tsx:154-157,168-171,184-187
StreamChunk(t, chunk) ==
    /\ turns[t].pc = "stream"
    /\ Len(turns[t].increments) < MaxChunks
    /\ chunk \in ChunkAt(Len(turns[t].increments) + 1)
    /\ LET fullText == Accumulate(turns[t].fullText, chunk) IN
       /\ messages' = updateAiMessage(messages, AiMsgId(t), fullText)
       /\ turns' = [turns EXCEPT ![t].fullText = fullText,
                                 ![t].increments = Append(@, chunk)]
    /\ UNCHANGED <<inputValue, isProcessing, draftContent, researchNotes,
                   projectTopic, call>>

\* the stream ends: finally, CollaborativeEditor.tsx:193-195
StreamEnds(t) ==
    /\ turns[t].pc = "stream"
    /\ isProcessing' = Finally(FALSE)
    /\ turns' = [turns EXCEPT ![t].pc = "done"]
    /\ UNCHANGED <<messages, inputValue, draftContent, researchNotes,
                   projectTopic, call>>

\* the streaming call or the stream throws, CollaborativeEditor.tsx:190-195
StreamThrows(t) ==
    /\ turns[t].pc = "stream"
    /\ Failures < MaxFailures
    /\ Fails(t, turns[t])

Next ==
    \/ \E v \in InputTexts : SetInputValue(v)
    \/ \E t \in Turns : ClickSend(t)
    \/ \E t \in Turns : PressEnter(t)
    \/ \E t \in Turns : ClickSuggestion(t)
    \/ \E t \in Turns, r \in TopicResponses : TopicSettles(t, r)
    \/ \E t \in Turns, r \in FixResponses : FixesSettle(t, r)
    \/ \E t \in Turns, r \in RouterResponses : RouterSettles(t, r)
    \/ \E t \in Turns, r \in ResearchResponses : ResearchSettles(t, r)
    \/ \E t \in Turns, k \in 1..MaxChunks : \E c \in ChunkAt(k) : StreamChunk(t, c)
    \/ \E t \in Turns : StreamEnds(t)
    \/ \E t \in Turns : StreamThrows(t)

Spec == Init /\ [][Next]_vars

\* every gateway call and every stream increment eventually returns or fails
Settles(t) ==
    \/ \E r \in FixResponses : FixesSettle(t, r)
    \/ \E r \in RouterResponses : RouterSettles(t, r)
    \/ \E r \in ResearchResponses : ResearchSettles(t, r)
    \/ \E k \in 1..MaxChunks : \E c \in ChunkAt(k) : StreamChunk(t, c)
    \/ StreamEnds(t)
    \/ StreamThrows(t)

LiveSpec == Spec /\ \A t \in Turns : WF_vars(Settles(t))

----------------------------------------------------------------------------
(* The host application, src/components/PersonaLab.tsx:548-712.  App owns  *)
(* draftContent, researchNotes and projectTopic (:565-567) and renders the *)
(* editor only while activeRole is not the persona lab (:689-708): leaving *)
(* the editor by the sidebar (:625) and coming back mounts a new editor,   *)
(* whose messages, inputValue and isProcessing start afresh                *)
(* (CollaborativeEditor.tsx:25-27, :45-56), while the project state and    *)
(* the promises of the editor that was left stay.                          *)

\* what the topic extraction answers: another topic for another text
MountTopics == {TextOf(<<"T">>), TextOf(<<"V">>)}

MountRoutes == {TextOf(CHIEF)}

\* setActiveRole(POLISHER) and then setActiveRole(CHIEF), PersonaLab.tsx:625:
\* taken here when no invocation of handleSend is suspended, so that only
\* a topic extraction can outlive the editor that started it
Remount ==
    /\ \A t \in Turns : ~InFlight(t)
    /\ Len(messages) > 1
    /\ messages' = <<InitMessage>>
    /\ inputValue' = <<>>
    /\ isProcessing' = FALSE
    /\ UNCHANGED <<draftContent, researchNotes, projectTopic, turns, call>>

NextMount ==
    \/ \E v \in InputTexts : SetInputValue(v)
    \/ \E t \in Turns : ClickSend(t)
    \/ \E t \in Turns : ClickSuggestion(t)
    \/ Remount
    \/ \E t \in Turns, r \in MountTopics : TopicSettles(t, r)
    \/ \E t \in Turns, r \in FixResponses : FixesSettle(t, r)
    \/ \E t \in Turns, r \in MountRoutes : RouterSettles(t, r)
    \/ \E t \in Turns, k \in 1..MaxChunks : \E c \in ChunkAt(k) : StreamChunk(t, c)
    \/ \E t \in Turns : StreamEnds(t)

SpecMount == Init /\ [][NextMount]_vars

-----------------------------------------------------------------------------
(* The editor with its draft pane: the user also edits the draft, quotes a *)
(* message into it and pastes long texts into the text area.               *)

\* longest draft the 'add to draft' button is pressed on
MaxDraftLen == 1
\* last message of the log whose 'add to draft' button is pressed
MaxQuoted == 1

\* what the user may leave in the draft textarea
DraftTexts == {<<>>, <<"e">>}

\* texts of 50 and of 51 characters, around the threshold of :160
Text50 == [i \in 1..50 |-> "x"]
Text51 == [i \in 1..51 |-> "x"]
\* what the user may type into the text area next to the draft
DraftInputs == {SpecialCommand, Text50, Text51}

\* router answers of the turns that work on the draft
DraftRoutes == {TextOf(EDITOR), TextOf(CHIEF)}

\* the draft textarea's onChange, CollaborativeEditor.tsx:424
SetDraftContent(v) ==
    /\ v # draftContent
    /\ draftContent' = v
    /\ UNCHANGED <<messages, inputValue, isProcessing, researchNotes,
                   projectTopic, turns, call>>

\* the 'add to draft' button of a message, CollaborativeEditor.tsx:335-347
AddToDraft(i) ==
    /\ i \in DOMAIN messages
    /\ messages[i].role # "user"
    /\ ~messages[i].isThinking
    /\ Len(draftContent) <= MaxDraftLen
    /\ draftContent' =
          draftContent
              \o (IF draftContent # <<>> THEN <<"\n", "\n">> ELSE <<>>)
              \o parseMessageContent(messages[i].text).cleanText
    /\ UNCHANGED <<messages, inputValue, isProcessing, researchNotes,
                   projectTopic, turns, call>>

NextDraft ==
    \/ \E v \in DraftInputs : SetInputValue(v)
    \/ \E v \in DraftTexts : SetDraftContent(v)
    \/ \E i \in 1..MaxQuoted : AddToDraft(i)
    \/ \E t \in Turns : ClickSend(t)
    \/ \E t \in Turns, r \in FixResponses : FixesSettle(t, r)
    \/ \E t \in Turns, r \in DraftRoutes : RouterSettles(t, r)
    \/ \E t \in Turns, k \in 1..MaxChunks : \E c \in ChunkAt(k) : StreamChunk(t, c)
    \/ \E t \in Turns : StreamEnds(t)

SpecDraft == Init /\ [][NextDraft]_vars

----------------------------------------------------------------------------
(* The router on its own: one call of determineNextAgent on a gateway      *)
(* outcome.                                                                *)

RouterWords ==
    {CHIEF, RESEARCHER, EXECUTOR, EDITOR, POLISHER, <<>>,
     <<"C", "h", "i", "e", "f">>, <<"E", "D", "I", "T", "O", "R">>,
     <<"R", "e", "s", "e", "a", "r", "c", "h", "e", "r">>,
     <<"c", "h", "\"", "i", "e", "f">>, <<"c", " ", "h", "i", "e", "f">>,
     <<"w", "r", "i", "t", "e", "r">>,
     <<"e", "d", "i", "t", "o", "r", ".">>}
RouterPrefixes == {<<>>, <<" ">>, <<"\"">>, <<"\n", "\"">>, <<"\"", " ">>}
RouterSuffixes == {<<>>, <<" ">>, <<"\"">>, <<"\"", "\n">>, <<" ", "\"">>}

RouterInputs ==
    {TextOf(p \o w \o x) : p \in RouterPrefixes, w \in RouterWords,
                           x \in RouterSuffixes}
        \cup {NoText, GatewayError}

InitRoute ==
    /\ messages = <<InitMessage>>
    /\ inputValue = <<>>
    /\ isProcessing = FALSE
    /\ draftContent = <<>>
    /\ researchNotes = <<>>
    /\ projectTopic = <<>>
    /\ turns = [t \in Turns |-> IdleTurn]
    /\ \E r \in RouterInputs :
          call = [fn |-> "determineNextAgent", response |-> r,
                  done |-> FALSE, result |-> [threw |-> FALSE, value |-> <<>>]]

Route ==
    /\ call.fn = "determineNextAgent"
    /\ ~call.done
    /\ call' = [call EXCEPT !.done = TRUE,
                            !.result = determineNextAgent(call.response)]
    /\ UNCHANGED <<messages, inputValue, isProcessing, draftContent,
                   researchNotes, projectTopic, turns>>

SpecRoute == InitRoute /\ [][Route]_vars

----------------------------------------------------------------------------
(* The parser on its own: one call of parseMessageContent on the wire      *)
(* format displayText + ":::SUGGESTIONS:::" + JSON.stringify(list).        *)

MaxListLen == 2

DisplayTexts ==
    {<<>>, <<"a">>, <<" ", "a", " ">>, <<"a", "\n">>, <<":">>,
     <<"a", ":", ":", ":">>,
     SubSeq(SuggestionsDelimiter, 1, 14),
     <<"a">> \o SubSeq(SuggestionsDelimiter, 1, 16),
     SuggestionsDelimiter \o <<"a">>}

ListItems ==
    {<<>>, <<"b">>, <<" ">>, <<"\"">>, <<"\\", "n">>, <<"b", "\n", ",">>,
     <<"[", "]">>, SuggestionsDelimiter}

Lists == UNION {[1..n -> ListItems] : n \in 0..MaxListLen}

InitParse ==
    /\ messages = <<InitMessage>>
    /\ inputValue = <<>>
    /\ isProcessing = FALSE
    /\ draftContent = <<>>
    /\ researchNotes = <<>>
    /\ projectTopic = <<>>
    /\ turns = [t \in Turns |-> IdleTurn]
    /\ \E d \in DisplayTexts, l \in Lists :
          call = [fn |-> "parseMessageContent", displayText |-> d, list |-> l,
                  done |-> FALSE,
                  result |-> [cleanText |-> <<>>, suggestions |-> JArray(<<>>)]]

Parse ==
    /\ call.fn = "parseMessageContent"
    /\ ~call.done
    /\ call' = [call EXCEPT
          !.done = TRUE,
          !.result = parseMessageContent(
                        call.displayText \o SuggestionsDelimiter
                            \o JSONStringify(call.list))]
    /\ UNCHANGED <<messages, inputValue, isProcessing, draftContent,
                   researchNotes, projectTopic, turns>>

SpecParse == InitParse /\ [][Parse]_vars

----------------------------------------------------------------------------
(* The parser on a text with one marked payload: one call of               *)
(* parseMessageContent on prefix + ":::SUGGESTIONS:::" + payload, where    *)
(* the payload is any text, valid JSON or not.                             *)

ContentPrefixes ==
    {<<>>, <<"a">>, <<" ", "a", " ">>, <<"a", "\n", "\n">>, <<"a", ":", ":">>}

Payloads ==
    {<<>>,
     <<"x">>,
     <<"[", "\"", "b", "\"">>,
     <<"[", "b", "]">>,
     <<"[", "\"", "b", "\"", ",", "]">>,
     <<"{">>,
     <<"'", "b", "'">>,
     <<"[", "\"", "b", "\"", "]", " ", "x">>,
     <<"[", "\"", "b", "\"", "]">>,
     <<" ", "[", "]", " ", "\n">>,
     <<"\"", "s", "\"">>,
     <<"1">>,
     <<"n", "u", "l", "l">>,
     <<"{", "\"", "k", "\"", ":", " ", "[", "\"", "b", "\"", "]", "}">>,
     <<"[", "\"", "b", "\"", "]">> \o SuggestionsDelimiter \o <<"c">>,
     <<"[", "\"", "b", "\"">> \o SuggestionsDelimiter \o <<"\"", "]">>,
     SuggestionsDelimiter}

InitParseText ==
    /\ messages = <<InitMessage>>
    /\ inputValue = <<>>
    /\ isProcessing = FALSE
    /\ draftContent = <<>>
    /\ researchNotes = <<>>
    /\ projectTopic = <<>>
    /\ turns = [t \in Turns |-> IdleTurn]
    /\ \E p \in ContentPrefixes, q \in Payloads :
          call = [fn |-> "parseMessageContent(content)", prefix |-> p,
                  payload |-> q, done |-> FALSE,
                  result |-> [cleanText |-> <<>>, suggestions |-> JArray(<<>>)]]

ParseText ==
    /\ call.fn = "parseMessageContent(content)"
    /\ ~call.done
    /\ call' = [call EXCEPT
          !.done = TRUE,
          !.result = parseMessageContent(
                        call.prefix \o SuggestionsDelimiter \o call.payload)]
    /\ UNCHANGED <<messages, inputValue, isProcessing, draftContent,
                   researchNotes, projectTopic, turns>>

SpecParseText == InitParseText /\ [][ParseText]_vars

----------------------------------------------------------------------------
(* The persona store of the host application, PersonaLab.tsx:551-586:     *)
(* personas is loaded from localStorage when App starts and written back   *)
(* by an effect after every render in which it changed; the effect has run *)
(* by the time the next event is handled, so each handler is taken with    *)
(* the write that follows it.  A persona is modelled with its id, name and *)
(* createdAt; its other fields are strings, written and read like name.    *)
(* The state is the record call = [fn |-> "App", personas,                 *)
(* selectedPersonaId, storage, created], created counting the personas     *)
(* made so far.                                                            *)

\* personas created in one run of the model
MaxPersonas == 3

\* selectedPersonaId === null, and localStorage.getItem(...) === null
Null == <<"null">>

\* crypto.randomUUID() and Date.now() of the n-th persona, PersonaLab.tsx:177,180
FreshId == <<"1", "2", "3", "4">>

\* name.trim() of the form, PersonaLab.tsx:178
PersonaNames == {<<"a">>, <<"a", "\"", "\\">>, <<"a", "\n", "b">>}

NewPersona(n, name) ==
    [id |-> <<"i", "d", FreshId[n]>>, name |-> name, createdAt |-> <<FreshId[n]>>]

\* a variant that writes the characters of a string as they are
StringifyStringUnescaped(chars) == <<"\"">> \o chars \o <<"\"">>

\* JSON.stringify of a string
StringifyString(chars) == <<"\"">> \o Quote(chars) \o <<"\"">>

\* JSON.stringify of a persona
StringifyPersona(p) ==
    <<"{">> \o StringifyString(<<"i", "d">>) \o <<":">> \o StringifyString(p.id)
    \o <<",">> \o StringifyString(<<"n", "a", "m", "e">>) \o <<":">>
    \o StringifyString(p.name)
    \o <<",">> \o StringifyString(<<"c", "r", "e", "a", "t", "e", "d", "A", "t">>)
    \o <<":">> \o p.createdAt \o <<"}">>

RECURSIVE StringifyPersonaItems(_)
StringifyPersonaItems(list) ==
    IF list = <<>> THEN <<>>
    ELSE StringifyPersona(Head(list))
         \o (IF Len(list) > 1 THEN <<",">> ELSE <<>>)
         \o StringifyPersonaItems(Tail(list))

\* JSON.stringify(personas), PersonaLab.tsx:571
StringifyPersonas(list) == <<"[">> \o StringifyPersonaItems(list) \o <<"]">>

\* the value of member key of a parsed object, "undefined" when it has none
MemberOf(obj, key) ==
    IF obj.type = "object" /\ \E i \in DOMAIN obj.value : obj.value[i].key = key
    THEN obj.value[CHOOSE i \in DOMAIN obj.value :
                      /\ obj.value[i].key = key
                      /\ \A j \in DOMAIN obj.value :
                            obj.value[j].key = key => j <= i].val.value
    ELSE <<"undefined">>

\* a parsed item of the stored array, as the persona the code reads from it
PersonaOf(obj) ==
    [id |-> MemberOf(obj, <<"i", "d">>),
     name |-> MemberOf(obj, <<"n", "a", "m", "e">>),
     createdAt |-> MemberOf(obj, <<"c", "r", "e", "a", "t", "e", "d", "A", "t">>)]

\* the initializer of personas, PersonaLab.tsx:552-560
LoadPersonas(saved) ==
    IF saved = Null \/ saved = <<>> THEN <<>>
    ELSE LET parsed == JSONParse(saved) IN
         IF ~parsed.ok \/ parsed.value.type # "array" THEN <<>>
         ELSE [i \in DOMAIN parsed.value.value |-> PersonaOf(parsed.value.value[i])]

\* a variant that keeps the selection when the selected persona is deleted
SelectionAfterDeleteKept(selected, id) == selected

\* if (selectedPersonaId === id) setSelectedPersonaId(null), PersonaLab.tsx:583-585
SelectionAfterDelete(selected, id) == IF selected = id THEN Null ELSE selected

InitApp ==
    /\ messages = <<InitMessage>>
    /\ inputValue = <<>>
    /\ isProcessing = FALSE
    /\ draftContent = <<>>
    /\ researchNotes = <<>>
    /\ projectTopic = <<>>
    /\ turns = [t \in Turns |-> IdleTurn]
    /\ call = [fn |-> "App", personas |-> LoadPersonas(Null),
               selectedPersonaId |-> Null,
               storage |-> StringifyPersonas(LoadPersonas(Null)),
               created |-> 0]

AppUnchanged ==
    UNCHANGED <<messages, inputValue, isProcessing, draftContent,
                researchNotes, projectTopic, turns>>

\* handleSavePersona and the effect, PersonaLab.tsx:569-579
handleSavePersona(name) ==
    /\ call.fn = "App"
    /\ call.created < MaxPersonas
    /\ LET persona == NewPersona(call.created + 1, name)
           list    == Append(call.personas, persona)
       IN call' = [call EXCEPT !.personas = list,
                               !.selectedPersonaId = persona.id,
                               !.storage = StringifyPersonas(list),
                               !.created = @ + 1]
    /\ AppUnchanged

\* handleDeletePersona and the effect, PersonaLab.tsx:569-572, :581-586;
\* the delete button of persona i, PersonaLab.tsx:276-278
handleDeletePersona(i) ==
    /\ call.fn = "App"
    /\ i \in DOMAIN call.personas
    /\ LET id   == call.personas[i].id
           list == SelectSeq(call.personas, LAMBDA p : p.id # id)
       IN call' = [call EXCEPT !.personas = list,
                               !.selectedPersonaId =
                                   SelectionAfterDelete(call.selectedPersonaId, id),
                               !.storage = StringifyPersonas(list)]
    /\ AppUnchanged

\* the button of persona i in the sidebar or in the editor's dropdown,
\* PersonaLab.tsx:660, CollaborativeEditor.tsx:268-272
SelectPersona(i) ==
    /\ call.fn = "App"
    /\ i \in DOMAIN call.personas
    /\ call.selectedPersonaId # call.personas[i].id
    /\ call' = [call EXCEPT !.selectedPersonaId = call.personas[i].id]
    /\ AppUnchanged

\* the 'no style' button, PersonaLab.tsx:672, CollaborativeEditor.tsx:280-284
SelectNoPersona ==
    /\ call.fn = "App"
    /\ call.selectedPersonaId # Null
    /\ call' = [call EXCEPT !.selectedPersonaId = Null]
    /\ AppUnchanged

\* the page is loaded again: the initializers and the effect,
\* PersonaLab.tsx:552-562, :569-572
Reload ==
    /\ call.fn = "App"
    /\ LET list == LoadPersonas(call.storage) IN
       call' = [call EXCEPT !.personas = list,
                            !.selectedPersonaId = Null,
                            !.storage = StringifyPersonas(list)]
    /\ AppUnchanged

NextApp ==
    \/ \E name \in PersonaNames : handleSavePersona(name)
    \/ \E i \in 1..MaxPersonas : handleDeletePersona(i)
    \/ \E i \in 1..MaxPersonas : SelectPersona(i)
    \/ SelectNoPersona
    \/ Reload

SpecApp == InitApp /\ [][NextApp]_vars

-----------------------------------------------------------------------------
(* Properties *)

\* the agent message of turn t, when it is in the log
HasAiMessage(t) == \E i \in DOMAIN messages : messages[i].id = AiMsgId(t)
AiMessageOf(t) ==
    messages[CHOOSE i \in DOMAIN messages : messages[i].id = AiMsgId(t)]

Streamed(t) ==
    Called(t, "executeWriting") \/ Called(t, "critiqueDraft")
        \/ Called(t, "chatWithChief")

\* C1: a turn whose text is the special command never calls the router,
\* whether applyEditorFixes succeeds or fails.
C1_SpecialCommandSkipsRouter ==
    \A t \in Turns :
        turns[t].textToSend = SpecialCommand
            => /\ ~Called(t, "determineNextAgent")
               /\ turns[t].pc # "awaitRouter"

C1_Witness ==
    \E t, u \in Turns :
        /\ turns[t].textToSend = SpecialCommand /\ turns[t].pc = "done"
        /\ turns[t].failed
        /\ turns[u].textToSend = SpecialCommand /\ turns[u].pc = "done"
        /\ ~turns[u].failed

\* C3: when the router's gateway call fails the router resolves to chief:
\* the turn gets a placeholder tagged chief and calls chatWithChief, it does
\* not enter the catch clause because of the router.
C3_RouterFailureProceedsAsChief ==
    \A t \in Turns :
        turns[t].routerFailed
            => /\ turns[t].targetAgentId = CHIEF
               /\ turns[t].pc \in {"stream", "done"}
               /\ Called(t, "chatWithChief")
               /\ HasAiMessage(t)
               /\ AiMessageOf(t).agentId = CHIEF

C3_Witness ==
    \E t \in Turns :
        /\ turns[t].routerFailed /\ turns[t].pc = "done" /\ ~turns[t].failed
        /\ Len(turns[t].increments) >= 1
        /\ AiMessageOf(t).text = Concat(turns[t].increments)

\* C4: in a streamed turn that has not failed, once an increment is applied
\* the agent message's text is the concatenation of the increments delivered
\* so far, in delivery order, and when the stream has ended the text is the
\* concatenation of all its increments (the empty text when there are none).
C4_TextIsConcatenationOfIncrements ==
    \A t \in Turns :
        (Streamed(t) /\ ~turns[t].failed
            /\ (Len(turns[t].increments) >= 1 \/ turns[t].pc = "done"))
            => /\ HasAiMessage(t)
               /\ AiMessageOf(t).text = Concat(turns[t].increments)

\* what holds of the assembly: from the first increment on, the text is the
\* concatenation of the increments delivered so far
StreamedTextAfterAnIncrement ==
    \A t \in Turns :
        (Streamed(t) /\ ~turns[t].failed /\ Len(turns[t].increments) >= 1)
            => /\ HasAiMessage(t)
               /\ AiMessageOf(t).text = Concat(turns[t].increments)

\* C5: a message leaves the pending state only after the last increment of
\* its stream: no increment is applied to a message that is not pending, and
\* the text of a message that is not pending never changes.
C5_FinalizedAfterLastIncrement ==
    [][ /\ \A i \in DOMAIN messages :
              ~messages[i].isThinking => messages'[i].text = messages[i].text
        /\ \A t \in Turns :
              (HasAiMessage(t) /\ ~AiMessageOf(t).isThinking)
                  => turns'[t].increments = turns[t].increments
      ]_vars

\* C6: at most one message of the log is pending.
C6_AtMostOnePending ==
    Cardinality({i \in DOMAIN messages : messages[i].isThinking}) <= 1

\* C7: a turn whose agent call failed ends with its agent message showing
\* the error literal, not pending.
C7_FailedTurnShowsErrorText ==
    \A t \in Turns :
        (turns[t].failed /\ turns[t].pc = "done")
            => /\ HasAiMessage(t)
               /\ AiMessageOf(t).text = ErrorText
               /\ ~AiMessageOf(t).isThinking

\* C8: every turn that passed the validation eventually ends, and
\* isProcessing is false when it does.
C8_TurnEndsWithFlagCleared ==
    \A t \in Turns :
        InFlight(t) ~> (turns[t].pc = "done" /\ ~isProcessing)

C8_Witness ==
    \E t, u \in Turns :
        /\ turns[t].pc = "done" /\ turns[t].failed
        /\ turns[u].pc = "done" /\ ~turns[u].failed
        /\ turns[u].textToSend = SpecialCommand
        /\ ~isProcessing

\* C9: handleSend with an empty or whitespace-only effective text (the
\* override, or the input buffer when the override is empty) changes none of
\* the message log, input buffer, isProcessing, draftContent, researchNotes
\* and projectTopic, and calls nothing.
C9_BlankSendIsNoOp ==
    [][ \A t \in Turns :
            LET override  == turns'[t].textOverride
                effective == IF override.given /\ override.text # <<>>
                             THEN override.text ELSE inputValue
            IN (turns[t].pc = "idle" /\ turns'[t].pc # "idle"
                    /\ Trim(effective) = <<>>)
               => /\ UNCHANGED <<messages, inputValue, isProcessing,
                                 draftContent, researchNotes, projectTopic>>
                  /\ turns'[t].pc = "returned"
                  /\ turns'[t].calls = <<>>
                  /\ turns'[t].topic = "none"
      ]_vars

C9_Witness ==
    \E t \in Turns :
        /\ turns[t].pc = "returned"
        /\ turns[t].textOverride = Override(<<" ">>)
        /\ inputValue = Hi
        /\ Len(messages) > 1

\* C2: determineNextAgent returns one of chief, researcher, executor,
\* editor; when the response text, trimmed, lowercased and stripped of its
\* quotes, is none of the four (or is missing) it returns chief.
C2_RouterReturnsAllowedIdentity ==
    (call.fn = "determineNextAgent" /\ call.done)
        => LET r    == call.response
               norm == IF r.ok /\ r.hasText
                       THEN ReplaceAll(ToLowerCase(Trim(r.text)), <<"\"">>, <<>>)
                       ELSE <<>>
               four == {CHIEF, RESEARCHER, EXECUTOR, EDITOR}
           IN /\ ~call.result.threw
              /\ call.result.value \in four
              /\ (r.ok /\ norm \notin four) => call.result.value = CHIEF

C2_Witness ==
    /\ call.fn = "determineNextAgent" /\ call.done
    /\ call.response.ok /\ call.response.hasText
    /\ ReplaceAll(ToLowerCase(Trim(call.response.text)), <<"\"">>, <<>>) = POLISHER
    /\ call.response.text # POLISHER
    /\ call.result.value = CHIEF

ListAsJson(list) == JArray([i \in 1..Len(list) |-> JString(list[i])])

\* C10: for a displayText without the delimiter and any list of strings,
\* parsing displayText + delimiter + JSON.stringify(list) yields
\* cleanText = displayText.trim() and suggestions = list.
C10_SuggestionRoundTrip ==
    (call.fn = "parseMessageContent" /\ call.done
        /\ ~Contains(call.displayText, SuggestionsDelimiter))
        => /\ call.result.cleanText = Trim(call.displayText)
           /\ call.result.suggestions = ListAsJson(call.list)


\* C11: for a text prefix + delimiter + payload whose payload, the part after
\* the delimiter, is not valid JSON, parseMessageContent returns cleanText =
\* the trimmed prefix and the empty suggestions list.
C11_MalformedPayloadYieldsNoSuggestions ==
    (call.fn = "parseMessageContent(content)" /\ call.done
        /\ ~Contains(call.prefix, SuggestionsDelimiter)
        /\ ~JSONParse(call.payload).ok)
        => /\ call.result.cleanText = Trim(call.prefix)
           /\ call.result.suggestions = JArray(<<>>)

\* what holds of the parser: when the text between the first delimiter and
\* the next one (or the end) is not valid JSON, the suggestions are empty
MalformedFirstPartYieldsNoSuggestions ==
    (call.fn = "parseMessageContent(content)" /\ call.done
        /\ ~Contains(call.prefix, SuggestionsDelimiter)
        /\ ~JSONParse(Split(call.payload, SuggestionsDelimiter)[1]).ok)
        => /\ call.result.cleanText = Trim(call.prefix)
           /\ call.result.suggestions = JArray(<<>>)

C13_EmptyFixResultKeepsDraft ==
    [][ \A t \in Turns :
          (turns[t].pc = "awaitFixes" /\ turns'[t].pc = "done"
              /\ ~turns'[t].failed /\ turns'[t].result = <<>>)
          => draftContent' = draftContent
      ]_vars

\* C14: a turn works with the draft as it is when the turn starts; when the
\* router sends the turn to the critic, the content reviewed is the user text
\* if it is longer than 50 characters and that draft otherwise (also at
\* exactly 50); when the content is empty critiqueDraft is not called and the
\* message is finalized with the 'nothing to review' text, otherwise
\* critiqueDraft is called with the content.
C14_CriticReviewsLongTextOrDraft ==
    [][ \A t \in Turns :
          /\ (turns[t].pc = "idle" /\ turns'[t].pc \notin {"idle", "returned"})
             => turns'[t].draft = draftContent
          /\ (turns[t].pc = "awaitRouter" /\ turns'[t].pc # "awaitRouter"
                  /\ turns'[t].targetAgentId = EDITOR /\ ~turns'[t].failed)
             => LET text     == turns[t].textToSend
                    reviewed == IF Len(text) > 50 THEN text ELSE turns[t].draft
                    called   == \E k \in DOMAIN turns'[t].calls :
                                   turns'[t].calls[k] = "critiqueDraft"
                IN IF reviewed = <<>>
                   THEN /\ ~called
                        /\ turns'[t].pc = "done"
                        /\ \E i \in DOMAIN messages' :
                              /\ messages'[i].id = AiMsgId(t)
                              /\ StartsWith(messages'[i].text, NothingToReview)
                              /\ ~messages'[i].isThinking
                   ELSE /\ called
                        /\ turns'[t].pc = "stream"
                        /\ turns'[t].content = reviewed
      ]_vars

C14_Witness ==
    \E t, u \in Turns :
        /\ turns[t].textToSend = Text50 /\ turns[t].draft = <<>>
        /\ turns[t].targetAgentId = EDITOR /\ turns[t].pc = "done"
        /\ ~Called(t, "critiqueDraft")
        /\ StartsWith(AiMessageOf(t).text, NothingToReview)
        /\ turns[u].textToSend = Text51 /\ turns[u].draft # <<>>
        /\ Called(u, "critiqueDraft") /\ turns[u].content = Text51

\* C15: when performResearch returns a non-empty result, the turn's message
\* gets the result as its text and researchNotes becomes its previous value
\* followed by the topic header with the user text and by the result; when
\* the result is empty the message is finalized with the fallback literal and
\* researchNotes is unchanged.
C15_ResearchResultIsAppendedToNotes ==
    [][ \A t \in Turns :
          (turns[t].pc = "awaitResearch" /\ turns'[t].pc = "done"
              /\ ~turns'[t].failed)
          => LET result == turns'[t].result IN
             \E i \in DOMAIN messages' :
                /\ messages'[i].id = AiMsgId(t)
                /\ ~messages'[i].isThinking
                /\ IF result # <<>>
                   THEN /\ messages'[i].text = result
                        /\ researchNotes' =
                              researchNotes \o NotesHeaderOpen
                                  \o turns[t].textToSend \o NotesHeaderClose
                                  \o result
                   ELSE /\ messages'[i].text = ResearchFallback
                        /\ researchNotes' = researchNotes
      ]_vars

\* C20: researchNotes is append-only: every step that changes researchNotes
\* leaves the old value as a prefix of the new one.
C20_ResearchNotesAppendOnly ==
    [][ /\ Len(researchNotes') >= Len(researchNotes)
        /\ SubSeq(researchNotes', 1, Len(researchNotes)) = researchNotes
      ]_vars

\* C17: turns are serialized by the interface: while isProcessing is set, no
\* affordance (the send button, Enter in the text area, a suggestion chip)
\* starts a new turn.
C17_NoTurnStartsWhileProcessing ==
    [][ \A t \in Turns :
          (turns[t].pc = "idle" /\ turns'[t].pc \notin {"idle", "returned"})
          => ~isProcessing
      ]_vars

\* the part of C17 that holds: the send button and the suggestion chips
\* start no turn while isProcessing is set
ButtonsStartNoTurnWhileProcessing ==
    [][ (\E t \in Turns : ClickSend(t) \/ ClickSuggestion(t)) => ~isProcessing
      ]_vars

\* C18: after a special-command turn has completed without a failure, its
\* agent message is tagged with the editor, is not pending, and parses to
\* exactly three suggestions.
C18_FixedMessageCarriesThreeSuggestions ==
    \A t \in Turns :
        (IsSpecial(turns[t].textToSend) /\ turns[t].pc = "done"
            /\ ~turns[t].failed)
        => \E i \in DOMAIN messages :
              /\ messages[i].id = AiMsgId(t)
              /\ messages[i].role = "model"
              /\ messages[i].agentId = EDITOR
              /\ ~messages[i].isThinking
              /\ LET suggestions == parseMessageContent(messages[i].text).suggestions
                 IN /\ suggestions.type = "array"
                    /\ Len(suggestions.value) = 3
                    /\ \A j \in 1..3 : suggestions.value[j].type = "string"

C18_Witness ==
    \E t \in Turns :
        /\ IsSpecial(turns[t].textToSend) /\ turns[t].pc = "done"
        /\ ~turns[t].failed
        /\ Called(t, "applyEditorFixes")
        /\ AiMessageOf(t).text = FixedText

\* C19: every agent message a turn has created is finalized (not pending) by
\* the time the turn has ended, also when the stream yielded no increment or
\* the error text was substituted.
C19_EndedTurnLeavesNoPendingMessage ==
    \A t \in Turns :
        turns[t].pc = "done"
        => \A i \in DOMAIN messages :
              messages[i].id = AiMsgId(t) => ~messages[i].isThinking

\* the part of C19 that holds: a turn that ended by a failure, or after at
\* least one increment, leaves its message finalized
FailedOrStreamedTurnLeavesNoPendingMessage ==
    \A t \in Turns :
        (turns[t].pc = "done" /\ (turns[t].failed \/ Len(turns[t].increments) >= 1))
        => \A i \in DOMAIN messages :
              messages[i].id = AiMsgId(t) => ~messages[i].isThinking


\* C16: projectTopic is set at most once: a completion of the topic
\* extraction writes it only while it is still empty, and once it is
\* non-empty no later step changes it, whatever the turns and their order.
C16_TopicIsSetAtMostOnce ==
    [][ projectTopic # <<>> => projectTopic' = projectTopic ]_vars

\* the part of C16 that holds: the topic never goes back to empty
TopicStaysSet ==
    [][ projectTopic # <<>> => projectTopic' # <<>> ]_vars

\* C21: handleSend writes draftContent only in a special-command turn and
\* researchNotes only in a researcher turn whose result is non-empty: a step
\* that changes draftContent is the completion of applyEditorFixes in a
\* special-command turn, a step that changes researchNotes is the completion
\* of performResearch with a non-empty result, and a step in which a turn
\* fails changes neither.
C21_OnlyFixesWriteDraftOnlyResearchWritesNotes ==
    [][ /\ draftContent' # draftContent
           => \E t \in Turns :
                 /\ IsSpecial(turns[t].textToSend)
                 /\ turns[t].pc = "awaitFixes" /\ turns'[t].pc = "done"
                 /\ ~turns'[t].failed
        /\ researchNotes' # researchNotes
           => \E t \in Turns :
                 /\ turns[t].targetAgentId = RESEARCHER
                 /\ turns[t].pc = "awaitResearch" /\ turns'[t].pc = "done"
                 /\ ~turns'[t].failed
                 /\ turns'[t].result # <<>>
        /\ (\E t \in Turns : ~turns[t].failed /\ turns'[t].failed)
           => /\ draftContent' = draftContent
              /\ researchNotes' = researchNotes
      ]_vars

C21_Witness ==
    \E t, u \in Turns :
        /\ turns[t].targetAgentId = RESEARCHER /\ turns[t].pc = "done"
        /\ turns[t].result = <<>> /\ ~turns[t].failed
        /\ researchNotes = <<>>
        /\ IsSpecial(turns[u].textToSend) /\ turns[u].pc = "done"
        /\ turns[u].result # <<>> /\ draftContent = turns[u].result

\* the calls of turn t to function f, in the order they were made
CallsTo(t, f) == SelectSeq(turns[t].calls, LAMBDA c : c = f)

\* the calls of turn t to the four agent functions
AgentCallsOf(t) ==
    SelectSeq(turns[t].calls,
              LAMBDA c : c \in {"performResearch", "executeWriting",
                                "critiqueDraft", "chatWithChief"})

\* C22: in every turn whose text is not the special command the router is
\* called exactly once, the placeholder is tagged with the router's result,
\* at most one agent function is called, at most once, and it is the one of
\* that tag (researcher: performResearch, executor: executeWriting, editor:
\* critiqueDraft, otherwise chatWithChief); applyEditorFixes is not called and
\* no call is made again after a failure.
C22_RoutedTurnCallsRouterOnceAndOneAgent ==
    \A t \in Turns :
        (turns[t].pc \notin {"idle", "returned"} /\ ~IsSpecial(turns[t].textToSend))
        => /\ Len(CallsTo(t, "determineNextAgent")) = 1
           /\ Len(CallsTo(t, "applyEditorFixes")) = 0
           /\ Len(AgentCallsOf(t)) <= 1
           /\ turns[t].pc = "awaitRouter" => Len(AgentCallsOf(t)) = 0
           /\ \A i \in DOMAIN messages :
                 messages[i].id = AiMsgId(t)
                 => /\ turns[t].pc # "awaitRouter"
                    /\ messages[i].agentId = turns[t].targetAgentId
                    /\ messages[i].agentId \in {CHIEF, RESEARCHER, EXECUTOR, EDITOR}
           /\ Len(AgentCallsOf(t)) = 1
              => AgentCallsOf(t)[1] =
                    (CASE turns[t].targetAgentId = RESEARCHER -> "performResearch"
                       [] turns[t].targetAgentId = EXECUTOR -> "executeWriting"
                       [] turns[t].targetAgentId = EDITOR -> "critiqueDraft"
                       [] OTHER -> "chatWithChief")

C22_Witness ==
    \E t, u \in Turns :
        /\ turns[t].pc = "done" /\ turns[t].failed
        /\ turns[t].targetAgentId = RESEARCHER
        /\ AgentCallsOf(t) = <<"performResearch">>
        /\ turns[u].pc = "done" /\ ~turns[u].failed
        /\ turns[u].targetAgentId = EXECUTOR
        /\ AgentCallsOf(u) = <<"executeWriting">>
        /\ AiMessageOf(u).agentId = EXECUTOR


\* C23: when a critic turn has nothing to review, its finalized message,
\* parsed by parseMessageContent, yields exactly one suggestion: "评审当前草稿"
\* when a draft exists and "我来写一段" when it does not.
C23_NothingToReviewCarriesOneChip ==
    \A t \in Turns :
        (turns[t].targetAgentId = EDITOR /\ turns[t].pc = "done"
            /\ ~IsSpecial(turns[t].textToSend)
            /\ ~turns[t].failed /\ ~Called(t, "critiqueDraft"))
        => \E i \in DOMAIN messages :
              /\ messages[i].id = AiMsgId(t)
              /\ LET suggestions == parseMessageContent(messages[i].text).suggestions
                 IN /\ suggestions.type = "array"
                    /\ Len(suggestions.value) = 1
                    /\ suggestions.value[1].type = "string"
                    /\ suggestions.value[1].value =
                          IF turns[t].draft # <<>> THEN ChipReviewDraft
                          ELSE ChipWriteSome

\* the part of C23 that holds: the message of such a turn is finalized and
\* its display text is the literal without the marker
NothingToReviewIsFinalized ==
    \A t \in Turns :
        (turns[t].targetAgentId = EDITOR /\ turns[t].pc = "done"
            /\ ~IsSpecial(turns[t].textToSend)
            /\ ~turns[t].failed /\ ~Called(t, "critiqueDraft"))
        => \E i \in DOMAIN messages :
              /\ messages[i].id = AiMsgId(t)
              /\ ~messages[i].isThinking
              /\ StartsWith(messages[i].text, NothingToReview)
              /\ parseMessageContent(messages[i].text).suggestions
                    = [type |-> "array", value |-> <<>>]


\* C24: for every text, parseMessageContent returns as suggestions a
\* (possibly empty) sequence of strings, also when the text after the
\* delimiter is valid JSON that is not an array of strings and when the
\* delimiter occurs more than once.
C24_SuggestionsIsASequenceOfStrings ==
    (call.fn = "parseMessageContent(content)" /\ call.done)
    => /\ call.result.suggestions.type = "array"
       /\ \A j \in DOMAIN call.result.suggestions.value :
             call.result.suggestions.value[j].type = "string"

\* the part of C24 that holds: a payload that is not valid JSON yields the
\* empty list whatever follows a second delimiter
UnparsablePayloadYieldsEmptyList ==
    (call.fn = "parseMessageContent(content)" /\ call.done
        /\ ~JSONParse(Trim(Split(call.prefix \o SuggestionsDelimiter
                                     \o call.payload,
                                 SuggestionsDelimiter)[2])).ok)
    => call.result.suggestions = JArray(<<>>)


\* C26: when a turn fails, the error substitution changes only the agent
\* message that turn created: every other message of the log keeps its text
\* and its pending flag.
C26_FailureRewritesOnlyOwnMessage ==
    [][ \A t \in Turns :
          (~turns[t].failed /\ turns'[t].failed)
          => /\ Len(messages') = Len(messages)
             /\ \A i \in DOMAIN messages :
                   messages[i].id # AiMsgId(t)
                   => /\ messages'[i].text = messages[i].text
                      /\ messages'[i].isThinking = messages[i].isThinking
      ]_vars

\* the part of C26 that holds: the error substitution leaves every message
\* that is not pending as it is
FailureKeepsFinalizedMessages ==
    [][ \A t \in Turns :
          (~turns[t].failed /\ turns'[t].failed)
          => /\ Len(messages') = Len(messages)
             /\ \A i \in DOMAIN messages :
                   ~messages[i].isThinking => messages'[i] = messages[i]
      ]_vars


\* C27: the critique passed to applyEditorFixes is the fallback literal or a
\* text streamed by critiqueDraft: it is never the apply-fixes confirmation,
\* the in-progress placeholder, the 'nothing to review' message or the error
\* literal.
C27_CritiqueIsNeverAnOrchestratorLiteral ==
    \A t \in Turns :
        Called(t, "applyEditorFixes")
        => /\ turns[t].critiqueText \notin {FixedText, FixingText, ErrorText}
           /\ ~StartsWith(turns[t].critiqueText, NothingToReview)
           /\ \/ turns[t].critiqueText = DefaultCritique
              \/ \E u \in Turns :
                    /\ Called(u, "critiqueDraft")
                    /\ Len(turns[u].increments) >= 1


\* C28: isProcessing is true in every state in which some turn is in flight
\* (started and not yet past its last gateway call or stream increment),
\* also when two turns overlap.
C28_FlagSetWhileATurnIsInFlight ==
    (\E t \in Turns : InFlight(t)) => isProcessing

\* the part of C28 that holds: the flag is set as long as no turn has ended
\* since the oldest turn in flight started
FlagSetUntilFirstCompletion ==
    ((\E t \in Turns : InFlight(t))
        /\ \A t \in Turns : turns[t].pc # "done")
    => isProcessing

\* the position in msgs of the message with this id, 0 when there is none
PositionOf(msgs, id) ==
    IF \E i \in DOMAIN msgs : msgs[i].id = id
    THEN CHOOSE i \in DOMAIN msgs : msgs[i].id = id
    ELSE 0

\* no other turn has run since turn t started: a later turn has not started,
\* an earlier one has ended and had its agent message in the log by then
NoOverlap(t, msgs) ==
    \A u \in Turns \ {t} :
        /\ u > t => turns[u].pc \in {"idle", "returned"}
        /\ u < t => /\ ~InFlight(u)
                    /\ PositionOf(msgs, AiMsgId(u)) < PositionOf(msgs, UserMsgId(t))

\* C29: the message log is append-only: no step of handleSend removes or
\* reorders messages or changes the id, role or agentId of a message; the
\* user message of a turn is in the log from the turn's first gateway call
\* on and stays there when the turn fails; the turn's agent message is
\* appended after it, and immediately after it when no other turn is in
\* flight.
C29_LogIsAppendOnly ==
    [][ /\ Len(messages') >= Len(messages)
        /\ \A i \in DOMAIN messages :
              /\ messages'[i].id = messages[i].id
              /\ messages'[i].role = messages[i].role
              /\ messages'[i].agentId = messages[i].agentId
        /\ \A t \in Turns :
              /\ turns'[t].calls # <<>>
                 => /\ PositionOf(messages', UserMsgId(t)) > 0
                    /\ messages'[PositionOf(messages', UserMsgId(t))].role = "user"
                    /\ messages'[PositionOf(messages', UserMsgId(t))].text
                          = turns'[t].textToSend
              /\ (PositionOf(messages, AiMsgId(t)) = 0
                    /\ PositionOf(messages', AiMsgId(t)) > 0)
                 => /\ PositionOf(messages', UserMsgId(t)) > 0
                    /\ PositionOf(messages', AiMsgId(t))
                          > PositionOf(messages', UserMsgId(t))
                    /\ NoOverlap(t, messages')
                       => PositionOf(messages', AiMsgId(t))
                             = PositionOf(messages', UserMsgId(t)) + 1
      ]_vars

C29_Witness ==
    \E t, u \in Turns :
        /\ turns[t].pc = "done" /\ turns[t].failed
        /\ PositionOf(messages, UserMsgId(t)) > 0
        /\ PositionOf(messages, AiMsgId(t)) > PositionOf(messages, UserMsgId(t))
        /\ AiMessageOf(t).text = ErrorText
        /\ turns[u].pc = "done" /\ ~turns[u].failed
        /\ PositionOf(messages, AiMsgId(u)) = PositionOf(messages, UserMsgId(u)) + 1
        /\ Len(messages) = 5


\* C25: after any sequence of handleSavePersona and handleDeletePersona, the
\* value stored under 'ai_squad_personas' is the serialization of the whole
\* persona list in memory, where a save has appended its persona and a
\* delete has removed every persona of the given id, and loading the stored
\* value yields the same list in the same order.
C25_StorageHoldsThePersonaList ==
    [][ call.fn = "App" =>
        LET old == call.personas
            new == call'.personas
        IN
        /\ call'.storage = StringifyPersonas(new)
        /\ LoadPersonas(call'.storage) = new
        /\ call'.created > call.created
           => /\ Len(new) = Len(old) + 1
              /\ SubSeq(new, 1, Len(old)) = old
              /\ new[Len(new)].id = NewPersona(call'.created, <<>>).id
        /\ Len(new) < Len(old)
           => \E i \in DOMAIN old :
                 /\ new = SelectSeq(old, LAMBDA p : p.id # old[i].id)
                 /\ \A j \in DOMAIN new : new[j].id # old[i].id
      ]_vars

C25_Witness ==
    /\ call.fn = "App"
    /\ call.created = MaxPersonas
    /\ Len(call.personas) = 2
    /\ call.personas[1].name = <<"a", "\"", "\\">>
    /\ call.personas[2].name = <<"a", "\n", "b">>
    /\ call.storage = StringifyPersonas(call.personas)
    /\ LoadPersonas(call.storage) = call.personas

\* C30: after any sequence of persona save, delete and select actions,
\* selectedPersonaId is null or the id of a persona of the list: saving
\* selects the new persona, deleting the selected persona resets the
\* selection to null, deleting another persona leaves it unchanged.
C30_SelectionIsNullOrListed ==
    [][ call.fn = "App" =>
        LET selected == call'.selectedPersonaId
            listed(id, list) == \E i \in DOMAIN list : list[i].id = id
        IN
        /\ selected = Null \/ listed(selected, call'.personas)
        /\ call'.created > call.created
           => selected = call'.personas[Len(call'.personas)].id
        /\ Len(call'.personas) < Len(call.personas)
           => selected = IF listed(call.selectedPersonaId, call'.personas)
                         THEN call.selectedPersonaId ELSE Null
      ]_vars

C30_Witness ==
    /\ call.fn = "App"
    /\ call.created = MaxPersonas
    /\ Len(call.personas) = 1
    /\ call.selectedPersonaId = call.personas[1].id
    /\ call.personas[1].id = NewPersona(2, <<>>).id

====
